---- MODULE Spec2Model ----
(***************************************************************************)
(* A model of SimpleJavaLexer: the tokenizer driver `tokenize` of          *)
(* src/lexer.cpp with its per-state handlers, the lexeme classifiers of    *)
(* src/token_matcher.cpp and the numeric helpers of src/number_helper.cpp. *)
(*                                                                         *)
(* A character is a one-character string, a std::string is a sequence of   *)
(* characters.  Indices keep the C++ convention: position.index is         *)
(* 0-based, so the character under the cursor is source[position.index+1]. *)
(***************************************************************************)
EXTENDS Integers, Sequences, FiniteSets, TLC

VARIABLES
    source,                     \* the argument of tokenize
    position,                   \* struct Position {index, line, column}
    blockCommentPositionSaver,  \* struct Position saved at a block comment's start
    numberInfo,                 \* struct NumberInfo {hasUsedDot, hasUsedE}
    tokens,                     \* std::vector<Token>
    word,                       \* the accumulation buffer
    currentState,               \* TokenizerState
    prev_c, c, next_c,          \* the characters the loop body reads
    pc                          \* "loop" (while head), "consumer" (label CONSUMER), "done"

vars == <<source, position, blockCommentPositionSaver, numberInfo, tokens, word,
          currentState, prev_c, c, next_c, pc>>

----------------------------------------------------------------------------
(* Bounds of the model. *)

\* Every string over the alphabet of a specification up to this length is an input.
MaxLen == 4

----------------------------------------------------------------------------
(* Characters. *)

\* '\0'
NUL == "NUL"

LowerCase ==
    { "a", "b", "c", "d", "e", "f", "g", "h", "i", "j", "k", "l", "m",
      "n", "o", "p", "q", "r", "s", "t", "u", "v", "w", "x", "y", "z" }

UpperCase ==
    { "A", "B", "C", "D", "E", "F", "G", "H", "I", "J", "K", "L", "M",
      "N", "O", "P", "Q", "R", "S", "T", "U", "V", "W", "X", "Y", "Z" }

DecimalDigits == { "0", "1", "2", "3", "4", "5", "6", "7", "8", "9" }

\* The characters the regex class \s matches among those the model uses.
WhitespaceChars == { " ", "\t", "\n", "\r", "\f" }

----------------------------------------------------------------------------
(* token.h *)

TokenizerStates ==
    { "STATE_NONE", "STATE_WORD", "STATE_LINE_COMMENT", "STATE_BLOCK_COMMENT",
      "STATE_LITERAL_STRING", "STATE_LITERAL_CHAR", "STATE_OPERATORS",
      "STATE_NUMBERS", "STATE_HEX", "STATE_BINARY" }

TokenTypes ==
    { "KEYWORD", "LINE_COMMENT", "BLOCK_COMMENT", "STRING", "CHAR", "IDENTIFIER",
      "ANNOTATION", "NUMBER", "HEX_NUMBER", "BINARY_NUMBER", "OPERATOR", "SYMBOL",
      "WHITESPACE", "UNKNOWN" }

\* Token(type, lex, position, consumed): the token's position is the cursor
\* position moved back by the number of characters consumed since the token
\* was opened.
Token(type, lex, pos, consumed) ==
    [type |-> type, lexeme |-> lex,
     position |-> [pos EXCEPT !.index = @ - consumed]]

----------------------------------------------------------------------------
(* token_matcher.cpp *)

java_keywords ==
    { <<"a", "b", "s", "t", "r", "a", "c", "t">>, <<"a", "s", "s", "e", "r", "t">>, <<"b", "o", "o", "l", "e", "a", "n">>,
      <<"b", "r", "e", "a", "k">>, <<"b", "y", "t", "e">>, <<"c", "a", "s", "e">>,
      <<"c", "a", "t", "c", "h">>, <<"c", "h", "a", "r">>, <<"c", "l", "a", "s", "s">>,
      <<"c", "o", "n", "t", "i", "n", "u", "e">>, <<"d", "e", "f", "a", "u", "l", "t">>, <<"d", "o">>,
      <<"d", "o", "u", "b", "l", "e">>, <<"e", "l", "s", "e">>, <<"e", "n", "u", "m">>,
      <<"e", "x", "t", "e", "n", "d", "s">>, <<"f", "i", "n", "a", "l">>, <<"i", "f">>,
      <<"f", "i", "n", "a", "l", "l", "y">>, <<"f", "l", "o", "a", "t">>, <<"f", "o", "r">>,
      <<"i", "m", "p", "l", "e", "m", "e", "n", "t", "s">>, <<"i", "m", "p", "o", "r", "t">>, <<"i", "n", "s", "t", "a", "n", "c", "e", "o", "f">>,
      <<"i", "n", "t">>, <<"i", "n", "t", "e", "r", "f", "a", "c", "e">>, <<"l", "o", "n", "g">>,
      <<"n", "a", "t", "i", "v", "e">>, <<"n", "e", "w">>, <<"p", "a", "c", "k", "a", "g", "e">>,
      <<"p", "r", "i", "v", "a", "t", "e">>, <<"p", "r", "o", "t", "e", "c", "t", "e", "d">>, <<"p", "u", "b", "l", "i", "c">>,
      <<"r", "e", "t", "u", "r", "n">>, <<"s", "h", "o", "r", "t">>, <<"s", "t", "a", "t", "i", "c">>,
      <<"s", "u", "p", "e", "r">>, <<"s", "w", "i", "t", "c", "h">>, <<"s", "y", "n", "c", "h", "r", "o", "n", "i", "z", "e", "d">>,
      <<"t", "h", "i", "s">>, <<"t", "h", "r", "o", "w">>, <<"t", "h", "r", "o", "w", "s">>,
      <<"t", "r", "a", "n", "s", "i", "e", "n", "t">>, <<"t", "r", "y">>, <<"v", "o", "i", "d">>,
      <<"v", "o", "l", "a", "t", "i", "l", "e">>, <<"w", "h", "i", "l", "e">>, <<"g", "o", "t", "o">>,
      <<"@", "i", "n", "t", "e", "r", "f", "a", "c", "e">>, <<"t", "r", "u", "e">>, <<"f", "a", "l", "s", "e">>,
      <<"n", "u", "l", "l">>, <<"c", "o", "n", "s", "t">>, <<"s", "t", "r", "i", "c", "t", "f", "p">>,
      <<"_">> }

java_operators ==
    { <<"!", "=">>, <<"=">>, <<"=", "=">>, <<"<">>, <<">">>, <<">", "=">>,
      <<"<", "=">>, <<"~", "=">>, <<"/", "=">>, <<"*", "=">>, <<"+", "=">>, <<"-", "=">>,
      <<"-">>, <<"+">>, <<"*">>, <<"/">>, <<"!">>, <<"~">>,
      <<"^">>, <<"&">>, <<"^", "=">>, <<"|">>, <<"|", "=">>, <<"&", "=">>,
      <<"%">>, <<"%", "=">>, <<"&", "&">>, <<"|", "|">>, <<"+", "+">>, <<"-", "-">>,
      <<"<", "<">>, <<">", ">">>, <<"<", "<", "=">>, <<">", ">", "=">> }

java_symbols ==
    { <<";">>, <<"-", ">">>, <<"{">>, <<"}">>, <<"[">>, <<"]">>, <<"(">>,
      <<")">>, <<",">>, <<"@">>, <<".">>, <<"?">>, <<":">> }

java_operators_starter ==
    { "=", "!", "<", ">", "+", "-", "*", "/", "&", "~", "|", "%", "^" }

\* [a-zA-Z0-9_$]
IdentifierLetters == LowerCase \cup UpperCase \cup DecimalDigits \cup {"_", "$"}

\* [a-zA-Z_$]
IdentifierStarters == LowerCase \cup UpperCase \cup {"_", "$"}

isKeyword(token) == token \in java_keywords

isOperator(token) == token \in java_operators

isSymbol(token) == token \in java_symbols

\* regex_match of a whole string against [a-zA-Z0-9_$]
isIdentifierLetter(token) ==
    Len(token) = 1 /\ token[1] \in IdentifierLetters

\* regex_match of a whole string against [a-zA-Z_$][a-zA-Z0-9_$]*
isIdentifier(token) ==
    /\ Len(token) >= 1
    /\ token[1] \in IdentifierStarters
    /\ \A i \in 2..Len(token) : token[i] \in IdentifierLetters

\* regex_match of a whole string against \s+
isWhitespace(token) ==
    /\ Len(token) >= 1
    /\ \A i \in 1..Len(token) : token[i] \in WhitespaceChars

\* token[0] of an empty std::string is '\0'
FirstChar(token) == IF Len(token) = 0 THEN NUL ELSE token[1]

isOperatorStart(token) == FirstChar(token) \in java_operators_starter

\* getTokenType without the symbol test of lines 84-85.
getTokenType_NoSymbol(token) ==
    IF isKeyword(token) THEN "KEYWORD"
    ELSE IF isOperator(token) THEN "OPERATOR"
    ELSE IF isIdentifier(token) THEN "IDENTIFIER"
    ELSE IF isWhitespace(token) THEN "WHITESPACE"
    ELSE IF FirstChar(token) = "@" THEN
        LET sub == SubSeq(token, 2, Len(token)) IN
        IF isKeyword(sub) \/ ~isIdentifier(sub) THEN "UNKNOWN" ELSE "ANNOTATION"
    ELSE "UNKNOWN"

\* getTokenType with the identifier test of lines 80-81 made first.
getTokenType_IdentifierFirst(token) ==
    IF isIdentifier(token) THEN "IDENTIFIER"
    ELSE IF isKeyword(token) THEN "KEYWORD"
    ELSE IF isOperator(token) THEN "OPERATOR"
    ELSE IF isWhitespace(token) THEN "WHITESPACE"
    ELSE IF isSymbol(token) THEN "SYMBOL"
    ELSE IF FirstChar(token) = "@" THEN
        LET sub == SubSeq(token, 2, Len(token)) IN
        IF isKeyword(sub) \/ ~isIdentifier(sub) THEN "UNKNOWN" ELSE "ANNOTATION"
    ELSE "UNKNOWN"

getTokenType(token) ==
    IF isKeyword(token) THEN "KEYWORD"
    ELSE IF isOperator(token) THEN "OPERATOR"
    ELSE IF isIdentifier(token) THEN "IDENTIFIER"
    ELSE IF isWhitespace(token) THEN "WHITESPACE"
    ELSE IF isSymbol(token) THEN "SYMBOL"
    ELSE IF FirstChar(token) = "@" THEN
        LET sub == SubSeq(token, 2, Len(token)) IN
        IF isKeyword(sub) \/ ~isIdentifier(sub) THEN "UNKNOWN" ELSE "ANNOTATION"
    ELSE "UNKNOWN"

----------------------------------------------------------------------------
(* number_helper.cpp *)

isNumber(ch) == ch \in DecimalDigits

isHexOrBinaryNumber(ch, binary) ==
    IF binary THEN ch \in {"0", "1"}
    ELSE isNumber(ch) \/ ch \in {"a", "b", "c", "d", "e", "f"}
                      \/ ch \in {"A", "B", "C", "D", "E", "F"}

\* isNumberTypeIdentifier ignoring supportsLong.
isNumberTypeIdentifier_AlwaysLong(ch, supportsLong) ==
    ch \in {"f", "F", "d", "D", "l", "L"}

isNumberTypeIdentifier(ch, supportsLong) ==
    ch \in {"f", "F", "d", "D"} \/ (supportsLong /\ ch \in {"l", "L"})

isNumberStarter(ch, next) == isNumber(ch) \/ (ch = "." /\ isNumber(next))

isNumberInRange(ch, isBinary, isHex) ==
    IF isBinary \/ isHex THEN isHexOrBinaryNumber(ch, isBinary) ELSE isNumber(ch)

\* src[index] for 0 <= index <= src.length(); src[src.length()] is '\0'
CharAt(src, index) == IF index < Len(src) THEN src[index + 1] ELSE NUL

\* The while loop of consumeUnderscoreInNumber, from nextIndex on.
RECURSIVE UnderscoreScan(_, _, _, _, _)
UnderscoreScan(src, nextIndex, consumedString, isBinary, isHex) ==
    IF nextIndex < Len(src) THEN
        IF CharAt(src, nextIndex) = "_" THEN
            UnderscoreScan(src, nextIndex + 1, Append(consumedString, "_"),
                           isBinary, isHex)
        ELSE IF isNumberInRange(CharAt(src, nextIndex), isBinary, isHex) THEN
            Append(consumedString, CharAt(src, nextIndex))
        ELSE <<>>
    ELSE <<>>

\* consumeUnderscoreInNumber without the test of the left neighbour, lines 39-41.
consumeUnderscoreInNumber_NoLeftCheck(src, index, isBinary, isHex) ==
    IF index = 0 \/ CharAt(src, index) # "_" THEN <<>>
    ELSE UnderscoreScan(src, index + 1, <<CharAt(src, index)>>, isBinary, isHex)

consumeUnderscoreInNumber(src, index, isBinary, isHex) ==
    IF index = 0 \/ CharAt(src, index) # "_" THEN <<>>
    ELSE IF ~isNumberInRange(CharAt(src, index - 1), isBinary, isHex) THEN <<>>
    ELSE UnderscoreScan(src, index + 1, <<CharAt(src, index)>>, isBinary, isHex)

----------------------------------------------------------------------------
(* lexer.cpp: the per-state handlers.  Each is the value its C++ function  *)
(* leaves in its reference parameters, with its return value (true for a   *)
(* void handler: the driver initialises hasConsumed to true).              *)

Result(t, p, w, s, ni, consumed) ==
    [tokens |-> t, position |-> p, word |-> w, state |-> s, numberInfo |-> ni,
     hasConsumed |-> consumed]

\* position.column += n
AddColumn(p, n) == [p EXCEPT !.column = @ + n]

\* position.index += n
AddIndex(p, n) == [p EXCEPT !.index = @ + n]

\* consumeSymbol without the lookahead of lines 88-92.
consumeSymbol_NoMerge ==
    Result(Append(tokens, Token("SYMBOL", <<c>>, position, 1)),
           AddColumn(position, 1), <<>>, currentState, numberInfo, TRUE)

\* consume, lines 87-95: the character is a symbol.
consumeSymbol ==
    LET w == <<c>>
        isDoubleColon == c = ":" /\ next_c = ":"
        w2 == IF isDoubleColon THEN Append(w, next_c) ELSE w
        p2 == IF isDoubleColon THEN AddIndex(position, 1) ELSE position
    IN  Result(Append(tokens, Token("SYMBOL", w2, p2, 1)),
               AddColumn(p2, Len(w2)), <<>>, currentState, numberInfo, TRUE)

\* consumeWhitespace with line 97 testing only that tokens is not empty.
consumeWhitespace_Always ==
    LET w == <<c>> IN
    Result(IF tokens # <<>>
               THEN Append(tokens, Token("WHITESPACE", w, position, 0))
               ELSE tokens,
           AddColumn(position, Len(w)), <<>>, currentState, numberInfo, TRUE)

\* consume, lines 96-101: the character is whitespace.
consumeWhitespace ==
    LET w == <<c>> IN
    Result(IF tokens # <<>> /\ tokens[Len(tokens)].type # "WHITESPACE"
               THEN Append(tokens, Token("WHITESPACE", w, position, 0))
               ELSE tokens,
           AddColumn(position, Len(w)), <<>>, currentState, numberInfo, TRUE)

\* consumeUnknown without lines 105-107: the character opens a word.
consumeUnknown_AsWord ==
    Result(tokens, position, <<c>>, "STATE_WORD", numberInfo, TRUE)

\* consume, lines 104-108: the character starts nothing.
consumeUnknown ==
    LET w == <<c>> IN
    Result(Append(tokens, Token("UNKNOWN", w, position, 0)),
           AddColumn(position, Len(w)), <<>>, currentState, numberInfo, TRUE)

consume ==
    LET w == <<c>> IN
    IF c = "/" /\ next_c = "/" THEN
        Result(tokens, position, w, "STATE_LINE_COMMENT", numberInfo, TRUE)
    ELSE IF c = "/" /\ next_c = "*" THEN
        Result(tokens, position, w, "STATE_BLOCK_COMMENT", numberInfo, TRUE)
    ELSE IF c = "\"" THEN
        Result(tokens, position, w, "STATE_LITERAL_STRING", numberInfo, TRUE)
    ELSE IF c = "'" THEN
        Result(tokens, position, w, "STATE_LITERAL_CHAR", numberInfo, TRUE)
    ELSE IF c = "0" /\ next_c \in {"x", "X"} THEN
        Result(tokens, position, w, "STATE_HEX", numberInfo, TRUE)
    ELSE IF c = "0" /\ next_c \in {"b", "B"} THEN
        Result(tokens, position, w, "STATE_BINARY", numberInfo, TRUE)
    ELSE IF c = "@" /\ isIdentifierLetter(<<next_c>>) THEN
        Result(tokens, position, w, "STATE_WORD", numberInfo, TRUE)
    ELSE IF isNumberStarter(c, next_c) THEN
        Result(tokens, position, w, "STATE_NUMBERS", numberInfo, TRUE)
    ELSE IF isOperatorStart(w) THEN
        Result(tokens, position, w, "STATE_OPERATORS", numberInfo, TRUE)
    ELSE IF isSymbol(w) THEN consumeSymbol
    ELSE IF isWhitespace(w) THEN consumeWhitespace
    ELSE IF isIdentifier(w) THEN
        Result(tokens, position, w, "STATE_WORD", numberInfo, TRUE)
    ELSE consumeUnknown

\* consumeWord without line 145: the state is not switched back to Neutral.
consumeWord_NoReset ==
    IF isIdentifierLetter(<<c>>) THEN
        Result(tokens, position, Append(word, c), currentState, numberInfo, TRUE)
    ELSE
        Result(Append(tokens, Token(getTokenType(word), word, position, Len(word))),
               AddColumn(position, Len(word)), <<>>, currentState, numberInfo, FALSE)

consumeWord ==
    IF isIdentifierLetter(<<c>>) THEN
        Result(tokens, position, Append(word, c), currentState, numberInfo, TRUE)
    ELSE
        Result(Append(tokens, Token(getTokenType(word), word, position, Len(word))),
               AddColumn(position, Len(word)), <<>>, "STATE_NONE", numberInfo, FALSE)

consumeLineComment ==
    IF c = "\n" THEN
        Result(Append(tokens, Token("LINE_COMMENT", word, position, Len(word))),
               AddColumn(position, Len(word)), <<>>, "STATE_NONE", numberInfo, TRUE)
    ELSE
        Result(tokens, position, Append(word, c), currentState, numberInfo, TRUE)

\* consumeBlockComment without line 217: the buffer is kept after the token.
consumeBlockComment_NoClear ==
    LET w == Append(word, c)
        p == AddColumn(position, 1)
    IN  IF prev_c = "*" /\ c = "/" THEN
            Result(Append(tokens, Token("BLOCK_COMMENT", w, blockCommentPositionSaver, 0)),
                   p, w, "STATE_NONE", numberInfo, TRUE)
        ELSE
            Result(tokens, p, w, currentState, numberInfo, TRUE)

consumeBlockComment ==
    LET w == Append(word, c)
        p == AddColumn(position, 1)
    IN  IF prev_c = "*" /\ c = "/" THEN
            Result(Append(tokens, Token("BLOCK_COMMENT", w, blockCommentPositionSaver, 0)),
                   p, <<>>, "STATE_NONE", numberInfo, TRUE)
        ELSE
            Result(tokens, p, w, currentState, numberInfo, TRUE)

\* consumeLiteralString without lines 249-254: a newline is one more character
\* of the literal.
consumeLiteralString_KeepNewline ==
    LET w == Append(word, c) IN
    IF prev_c # "\\" /\ c = "\"" THEN
        Result(Append(tokens, Token("STRING", w, position, Len(w) - 1)),
               AddColumn(position, Len(w)), <<>>, "STATE_NONE", numberInfo, TRUE)
    ELSE
        Result(tokens, position, w, currentState, numberInfo, TRUE)

consumeLiteralString ==
    IF c = "\n" THEN
        Result(Append(tokens, Token("UNKNOWN", word, position, Len(word))),
               position, <<>>, "STATE_NONE", numberInfo, TRUE)
    ELSE
        LET w == Append(word, c) IN
        IF prev_c # "\\" /\ c = "\"" THEN
            Result(Append(tokens, Token("STRING", w, position, Len(w) - 1)),
                   AddColumn(position, Len(w)), <<>>, "STATE_NONE", numberInfo, TRUE)
        ELSE
            Result(tokens, position, w, currentState, numberInfo, TRUE)

\* consumeLiteralChar without lines 293-298: a newline is one more character.
consumeLiteralChar_NewlineInside ==
    LET w == Append(word, c) IN
    IF prev_c # "\\" /\ c = "'" THEN
        Result(Append(tokens, Token("CHAR", w, position, Len(w) - 1)),
               AddColumn(position, Len(w)), <<>>, "STATE_NONE", numberInfo, TRUE)
    ELSE
        Result(tokens, position, w, currentState, numberInfo, TRUE)

consumeLiteralChar ==
    IF c = "\n" THEN
        Result(Append(tokens, Token("UNKNOWN", word, position, Len(word))),
               position, <<>>, "STATE_NONE", numberInfo, TRUE)
    ELSE
        LET w == Append(word, c) IN
        IF prev_c # "\\" /\ c = "'" THEN
            Result(Append(tokens, Token("CHAR", w, position, Len(w) - 1)),
                   AddColumn(position, Len(w)), <<>>, "STATE_NONE", numberInfo, TRUE)
        ELSE
            Result(tokens, position, w, currentState, numberInfo, TRUE)

\* consumeOperator returning true at line 348: the ending character is consumed.
consumeOperator_Swallow ==
    IF isOperatorStart(<<c>>) THEN
        Result(tokens, position, Append(word, c), currentState, numberInfo, TRUE)
    ELSE
        Result(Append(tokens, Token(getTokenType(word), word, position, Len(word))),
               AddColumn(position, Len(word)), <<>>, "STATE_NONE", numberInfo, TRUE)

consumeOperator ==
    IF isOperatorStart(<<c>>) THEN
        Result(tokens, position, Append(word, c), currentState, numberInfo, TRUE)
    ELSE
        Result(Append(tokens, Token(getTokenType(word), word, position, Len(word))),
               AddColumn(position, Len(word)), <<>>, "STATE_NONE", numberInfo, FALSE)

\* consumeNumber with line 399 testing only that the character is a point.
consumeNumber_AnyDot ==
    LET underscore == consumeUnderscoreInNumber(source, position.index, FALSE, FALSE) IN
    IF underscore # <<>> THEN
        Result(tokens, AddIndex(position, Len(underscore) - 1), word \o underscore,
               currentState, numberInfo, TRUE)
    ELSE IF isNumber(c)
            \/ (numberInfo.hasUsedE /\ prev_c \in {"e", "E"} /\ c \in {"-", "+"}) THEN
        Result(tokens, position, Append(word, c), currentState, numberInfo, TRUE)
    ELSE IF c = "." THEN
        Result(tokens, position, Append(word, c), currentState,
               [numberInfo EXCEPT !.hasUsedDot = TRUE], TRUE)
    ELSE IF ~numberInfo.hasUsedE /\ c \in {"e", "E"}
            /\ (isNumber(next_c) \/ next_c \in {"+", "-"}) THEN
        Result(tokens, position, Append(word, c), currentState,
               [numberInfo EXCEPT !.hasUsedE = TRUE], TRUE)
    ELSE
        LET isType == isNumberTypeIdentifier(c, ~numberInfo.hasUsedE /\ ~numberInfo.hasUsedDot)
            w == IF isType THEN Append(word, c) ELSE word
        IN  Result(Append(tokens, Token("NUMBER", w, position,
                                        Len(w) - (IF isType THEN 1 ELSE 0))),
                   AddColumn(position, Len(w)), <<>>, "STATE_NONE", numberInfo, isType)

\* consumeNumber with line 391 adding the whole size of the run to the cursor.
consumeNumber_IndexOff ==
    LET underscore == consumeUnderscoreInNumber(source, position.index, FALSE, FALSE) IN
    IF underscore # <<>> THEN
        Result(tokens, AddIndex(position, Len(underscore)), word \o underscore,
               currentState, numberInfo, TRUE)
    ELSE IF isNumber(c)
            \/ (numberInfo.hasUsedE /\ prev_c \in {"e", "E"} /\ c \in {"-", "+"}) THEN
        Result(tokens, position, Append(word, c), currentState, numberInfo, TRUE)
    ELSE IF ~numberInfo.hasUsedDot /\ c = "." THEN
        Result(tokens, position, Append(word, c), currentState,
               [numberInfo EXCEPT !.hasUsedDot = TRUE], TRUE)
    ELSE IF ~numberInfo.hasUsedE /\ c \in {"e", "E"}
            /\ (isNumber(next_c) \/ next_c \in {"+", "-"}) THEN
        Result(tokens, position, Append(word, c), currentState,
               [numberInfo EXCEPT !.hasUsedE = TRUE], TRUE)
    ELSE
        LET isType == isNumberTypeIdentifier(c, ~numberInfo.hasUsedE /\ ~numberInfo.hasUsedDot)
            w == IF isType THEN Append(word, c) ELSE word
        IN  Result(Append(tokens, Token("NUMBER", w, position,
                                        Len(w) - (IF isType THEN 1 ELSE 0))),
                   AddColumn(position, Len(w)), <<>>, "STATE_NONE", numberInfo, isType)

consumeNumber ==
    LET underscore == consumeUnderscoreInNumber(source, position.index, FALSE, FALSE) IN
    IF underscore # <<>> THEN
        Result(tokens, AddIndex(position, Len(underscore) - 1), word \o underscore,
               currentState, numberInfo, TRUE)
    ELSE IF isNumber(c)
            \/ (numberInfo.hasUsedE /\ prev_c \in {"e", "E"} /\ c \in {"-", "+"}) THEN
        Result(tokens, position, Append(word, c), currentState, numberInfo, TRUE)
    ELSE IF ~numberInfo.hasUsedDot /\ c = "." THEN
        Result(tokens, position, Append(word, c), currentState,
               [numberInfo EXCEPT !.hasUsedDot = TRUE], TRUE)
    ELSE IF ~numberInfo.hasUsedE /\ c \in {"e", "E"}
            /\ (isNumber(next_c) \/ next_c \in {"+", "-"}) THEN
        Result(tokens, position, Append(word, c), currentState,
               [numberInfo EXCEPT !.hasUsedE = TRUE], TRUE)
    ELSE
        LET isType == isNumberTypeIdentifier(c, ~numberInfo.hasUsedE /\ ~numberInfo.hasUsedDot)
            w == IF isType THEN Append(word, c) ELSE word
        IN  Result(Append(tokens, Token("NUMBER", w, position,
                                        Len(w) - (IF isType THEN 1 ELSE 0))),
                   AddColumn(position, Len(w)), <<>>, "STATE_NONE", numberInfo, isType)

\* consumeHexAndBinary with line 469 comparing against 3 whether or not the
\* suffix was appended.
consumeHexAndBinary_SuffixCounted(isBinary) ==
    LET underscore == consumeUnderscoreInNumber(source, position.index, isBinary, ~isBinary) IN
    IF underscore # <<>> THEN
        Result(tokens, AddIndex(position, Len(underscore) - 1), word \o underscore,
               currentState, numberInfo, TRUE)
    ELSE IF Len(word) = 1 \/ isHexOrBinaryNumber(c, isBinary) THEN
        Result(tokens, position, Append(word, c), currentState, numberInfo, TRUE)
    ELSE
        LET isType == c \in {"l", "L"}
            w == IF isType THEN Append(word, c) ELSE word
            numberType == IF isBinary THEN "BINARY_NUMBER" ELSE "HEX_NUMBER"
            type == IF Len(w) >= 3 THEN numberType ELSE "UNKNOWN"
        IN  Result(Append(tokens, Token(type, w, position,
                                        Len(w) - (IF isType THEN 1 ELSE 0))),
                   AddColumn(position, Len(w)), <<>>, "STATE_NONE", numberInfo, isType)

consumeHexAndBinary(isBinary) ==
    LET underscore == consumeUnderscoreInNumber(source, position.index, isBinary, ~isBinary) IN
    IF underscore # <<>> THEN
        Result(tokens, AddIndex(position, Len(underscore) - 1), word \o underscore,
               currentState, numberInfo, TRUE)
    ELSE IF Len(word) = 1 \/ isHexOrBinaryNumber(c, isBinary) THEN
        Result(tokens, position, Append(word, c), currentState, numberInfo, TRUE)
    ELSE
        LET isType == c \in {"l", "L"}
            w == IF isType THEN Append(word, c) ELSE word
            numberType == IF isBinary THEN "BINARY_NUMBER" ELSE "HEX_NUMBER"
            type == IF Len(w) >= (IF isType THEN 4 ELSE 3) THEN numberType ELSE "UNKNOWN"
        IN  Result(Append(tokens, Token(type, w, position,
                                        Len(w) - (IF isType THEN 1 ELSE 0))),
                   AddColumn(position, Len(w)), <<>>, "STATE_NONE", numberInfo, isType)

----------------------------------------------------------------------------
(* lexer.cpp: tokenize. *)

\* The inputs of the tests in test/assert_lexer.cpp.
Scenarios ==
    { <<"a", "+", "b">>,
      <<"\t", "a", " ", "+", " ", "b", "\n">>,
      <<"(", "a", "+", "b", ")", "*", "c">>,
      <<"a", "-", "-", "+", "-", "b", "+", "+", "-", "~", "a">>,
      <<"\"", "H", "e", "l", "l", "o", ",", " ", "W", "o", "r", "l", "d", "!", "\"">>,
      <<"\"", "H", "e", "l", "l", "o", "\\", "n", "W", "o", "r", "l", "d", "\\", "t", "!", "\"">>,
      <<"\"", "\"">>,
      <<"'", "a", "'">>,
      <<"'", "\\", "n", "'">>,
      <<"\"", "H", "e", "l", "l", "o">>,
      <<"'", "a">>,
      <<"\"", "!", "@", "#", "$", "%", "^", "&", "*", "(", ")", "_", "+", "-", "=", "<", ">", "?", "\"">>,
      <<"1", "f">>,
      <<"1", "_", "2", "f">>,
      <<".", "0", "d">>,
      <<"0", ".", "1", "e", "-", "2", "f">>,
      <<"1", "_", "2", "3", "4">>,
      <<"2", "4">>,
      <<"0", "x", "1", "A", "3">>,
      <<"0", "b", "1", "0", "1", "0">>,
      <<"3", "_", "1", ".", "1", "_", "_", "_", "_", "_", "_", "_", "_", "_", "_", "_", "1", "4", "1", "_", "5", "9", "2", "_", "6", "5", "3">>,
      <<"a", " ", "+", " ", "b", " ", "/", "/", " ", "T", "h", "i", "s", " ", "i", "s", " ", "a", " ", "c", "o", "m", "m", "e", "n", "t">>,
      <<"a", " ", "+", " ", "b", " ", "/", "*", " ", "T", "h", "i", "s", " ", "i", "s", " ", "a", " ", "\n", " ", "m", "u", "l", "t", "i", "-", "l", "i", "n", "e", " ", "c", "o", "m", "m", "e", "n", "t", " ", "*", "/", " ", "d">>,
      <<>>,
      <<"@", "T", "e", "s", "t">>,
      <<"a", " ", "+", " ", "#">>,
      <<"@", "O", "v", "e", "r", "r", "i", "d", "e", " ", "p", "u", "b", "l", "i", "c", " ", "v", "o", "i", "d", " ", "t", "e", "s", "t", "(", ")", " ", "{", "}">>,
      <<"(", "$", "a", "r", "g", "1", ")", "-", ">", "{", "/", "*", "C", "o", "m", "m", "e", "n", "t", "*", "/", "}">> }

\* The inputs of a specification: the inputs of the repository's tests and
\* every string over the given alphabet up to MaxLen characters.
Strings(alphabet) == UNION { [1..n -> alphabet] : n \in 0..MaxLen }

Inputs(alphabet) == Scenarios \cup Strings(alphabet)

\* tokenize, lines 497-509: the locals before the loop.
InitWith(alphabet) ==
    /\ source \in Inputs(alphabet)
    /\ position = [index |-> 0, line |-> 1, column |-> 1]
    /\ blockCommentPositionSaver = [index |-> 0, line |-> 0, column |-> 0]
    /\ numberInfo = [hasUsedDot |-> FALSE, hasUsedE |-> FALSE]
    /\ tokens = <<>>
    /\ word = <<>>
    /\ currentState = "STATE_NONE"
    /\ prev_c = NUL
    /\ c = NUL
    /\ next_c = NUL
    /\ pc = "loop"

\* LoopHead without the while condition of line 511.
LoopHead_NoGuard ==
    /\ pc = "loop"
    /\ c' = CharAt(source, position.index)
    /\ next_c' = CharAt(source, position.index + 1)
    /\ pc' = "consumer"
    /\ UNCHANGED <<source, position, blockCommentPositionSaver, numberInfo, tokens,
                   word, currentState, prev_c>>

\* The while head: read c and next_c.
LoopHead ==
    /\ pc = "loop"
    /\ Len(source) > position.index
    /\ c' = CharAt(source, position.index)
    /\ next_c' = CharAt(source, position.index + 1)
    /\ pc' = "consumer"
    /\ UNCHANGED <<source, position, blockCommentPositionSaver, numberInfo, tokens,
                   word, currentState, prev_c>>

\* The while condition fails: return tokens.
LoopExit ==
    /\ pc = "loop"
    /\ ~(Len(source) > position.index)
    /\ pc' = "done"
    /\ UNCHANGED <<source, position, blockCommentPositionSaver, numberInfo, tokens,
                   word, currentState, prev_c, c, next_c>>

\* Lines 567-571: the cursor moves past the consumed character.
Advance(p) ==
    LET p1 == AddIndex(p, 1) IN
    IF c = "\n" THEN [p1 EXCEPT !.line = @ + 1, !.column = 1] ELSE p1

\* Lines 575-578: the input has ended with a token still open.
EndOfSource(r) ==
    /\ Advance(r.position).index >= Len(source)
    /\ r.state # "STATE_NONE"
    /\ r.word # <<>>
    /\ c # "\n"

\* Lines 561-582, after the switch has left r: re-dispatch the character, or
\* advance and either go round the loop or dispatch the synthetic newline.
AfterSwitch(r) ==
    /\ tokens' = r.tokens
    /\ word' = r.word
    /\ currentState' = r.state
    /\ numberInfo' = r.numberInfo
    /\ IF ~r.hasConsumed
       THEN /\ position' = r.position
            /\ pc' = "consumer"
            /\ UNCHANGED <<prev_c, c>>
       ELSE /\ position' = Advance(r.position)
            /\ prev_c' = c
            /\ c' = IF EndOfSource(r) THEN "\n" ELSE c
            /\ pc' = IF EndOfSource(r) THEN "consumer" ELSE "loop"
    /\ UNCHANGED <<source, next_c>>

\* case STATE_NONE without line 526: the start of a block comment is not saved.
DispatchNone_NoSave ==
    /\ pc = "consumer"
    /\ currentState = "STATE_NONE"
    /\ LET r == consume IN
       /\ UNCHANGED blockCommentPositionSaver
       /\ AfterSwitch(IF r.state = "STATE_NUMBERS"
                      THEN [r EXCEPT !.numberInfo =
                                [hasUsedDot |-> (c = "."), hasUsedE |-> FALSE]]
                      ELSE r)

\* case STATE_NONE, lines 519-531.
\* case STATE_NONE without lines 527-530: numberInfo is not reset.
DispatchNone_NoReset ==
    /\ pc = "consumer"
    /\ currentState = "STATE_NONE"
    /\ LET r == consume IN
       /\ blockCommentPositionSaver' =
              IF r.state = "STATE_BLOCK_COMMENT" THEN r.position
              ELSE blockCommentPositionSaver
       /\ AfterSwitch(r)

DispatchNone ==
    /\ pc = "consumer"
    /\ currentState = "STATE_NONE"
    /\ LET r == consume IN
       /\ blockCommentPositionSaver' =
              IF r.state = "STATE_BLOCK_COMMENT" THEN r.position
              ELSE blockCommentPositionSaver
       /\ AfterSwitch(IF r.state = "STATE_NUMBERS"
                      THEN [r EXCEPT !.numberInfo =
                                [hasUsedDot |-> (c = "."), hasUsedE |-> FALSE]]
                      ELSE r)

DispatchWord ==
    /\ pc = "consumer"
    /\ currentState = "STATE_WORD"
    /\ AfterSwitch(consumeWord)
    /\ UNCHANGED blockCommentPositionSaver

DispatchLineComment ==
    /\ pc = "consumer"
    /\ currentState = "STATE_LINE_COMMENT"
    /\ AfterSwitch(consumeLineComment)
    /\ UNCHANGED blockCommentPositionSaver

DispatchBlockComment ==
    /\ pc = "consumer"
    /\ currentState = "STATE_BLOCK_COMMENT"
    /\ AfterSwitch(consumeBlockComment)
    /\ UNCHANGED blockCommentPositionSaver

DispatchLiteralString ==
    /\ pc = "consumer"
    /\ currentState = "STATE_LITERAL_STRING"
    /\ AfterSwitch(consumeLiteralString)
    /\ UNCHANGED blockCommentPositionSaver

DispatchLiteralChar ==
    /\ pc = "consumer"
    /\ currentState = "STATE_LITERAL_CHAR"
    /\ AfterSwitch(consumeLiteralChar)
    /\ UNCHANGED blockCommentPositionSaver

DispatchOperators ==
    /\ pc = "consumer"
    /\ currentState = "STATE_OPERATORS"
    /\ AfterSwitch(consumeOperator)
    /\ UNCHANGED blockCommentPositionSaver

DispatchNumbers ==
    /\ pc = "consumer"
    /\ currentState = "STATE_NUMBERS"
    /\ AfterSwitch(consumeNumber)
    /\ UNCHANGED blockCommentPositionSaver

DispatchHex ==
    /\ pc = "consumer"
    /\ currentState = "STATE_HEX"
    /\ AfterSwitch(consumeHexAndBinary(FALSE))
    /\ UNCHANGED blockCommentPositionSaver

DispatchBinary ==
    /\ pc = "consumer"
    /\ currentState = "STATE_BINARY"
    /\ AfterSwitch(consumeHexAndBinary(TRUE))
    /\ UNCHANGED blockCommentPositionSaver

Next ==
    \/ LoopHead
    \/ LoopExit
    \/ DispatchNone
    \/ DispatchWord
    \/ DispatchLineComment
    \/ DispatchBlockComment
    \/ DispatchLiteralString
    \/ DispatchLiteralChar
    \/ DispatchOperators
    \/ DispatchNumbers
    \/ DispatchHex
    \/ DispatchBinary

\* Words, separators, whitespace and comments.
Alphabet == { "a", " ", "\n", ";", ":", "/", "*", "1" }

Init == InitWith(Alphabet)

Spec == Init /\ [][Next]_vars

\* String and char literals: delimiters, the escape character, a newline.
LiteralAlphabet == { "\"", "'", "\\", "\n", "a", " ", ";" }

InitLiterals == InitWith(LiteralAlphabet)

SpecLiterals == InitLiterals /\ [][Next]_vars

\* Operators and the arrow.
OperatorAlphabet == { "-", ">", "=", "a", "(", ")", " ", "/" }

InitOperators == InitWith(OperatorAlphabet)

SpecOperators == InitOperators /\ [][Next]_vars

\* Hex and binary literals: prefixes, digits, the long suffix, underscores.
NumberAlphabet == { "0", "1", "2", "x", "b", "L", "_", ";" }

InitNumbers == InitWith(NumberAlphabet)

SpecNumbers == InitNumbers /\ [][Next]_vars

\* Decimal literals: digits, underscores, the point, the exponent, suffixes.
DecimalAlphabet == { "1", "_", ".", "e", "+", "f", "L", "a" }

InitDecimal == InitWith(DecimalAlphabet)

SpecDecimal == InitDecimal /\ [][Next]_vars

\* Characters that start no construct, among words, operators and numbers.
UnknownAlphabet == { "#", "\\", "a", "+", " ", "1", ";", "." }

InitUnknown == InitWith(UnknownAlphabet)

SpecUnknown == InitUnknown /\ [][Next]_vars

\* getTokenType applied to one lexeme: the lexemes are the three tables, the
\* annotations of the tests and every string over ClassifyAlphabet.
ClassifyAlphabet == { "@", "a", "_", " ", "+", "-", ">", ";" }

ClassifyLexemes ==
    java_keywords \cup java_operators \cup java_symbols \cup Strings(ClassifyAlphabet)
        \cup { <<"@", "T", "e", "s", "t">>, <<"@", "t", "r", "u", "e">>,
               <<"@", "n", "u", "l", "l">>, <<"@", "1">>, <<"@", "@">> }

InitClassify ==
    /\ source \in ClassifyLexemes
    /\ position = [index |-> 0, line |-> 1, column |-> 1]
    /\ blockCommentPositionSaver = [index |-> 0, line |-> 0, column |-> 0]
    /\ numberInfo = [hasUsedDot |-> FALSE, hasUsedE |-> FALSE]
    /\ tokens = <<>>
    /\ word = <<>>
    /\ currentState = "STATE_NONE"
    /\ prev_c = NUL
    /\ c = NUL
    /\ next_c = NUL
    /\ pc = "classify"

\* One call of getTokenType(source); the result is kept as a token.
Classify ==
    /\ pc = "classify"
    /\ tokens' = <<Token(getTokenType(source), source, position, 0)>>
    /\ pc' = "classified"
    /\ UNCHANGED <<source, position, blockCommentPositionSaver, numberInfo, word,
                   currentState, prev_c, c, next_c>>

SpecClassify == InitClassify /\ [][Classify]_vars

\* The at sign before letters, digits and other characters.
AnnotationAlphabet == { "@", "a", "1", "_", "$", " ", ";", "." }

InitAnnotation == InitWith(AnnotationAlphabet)

SpecAnnotation == InitAnnotation /\ [][Next]_vars

\* tokenize is a sequential loop: while a step is possible it is taken.
FairSpec == Spec /\ WF_vars(Next)

----------------------------------------------------------------------------
(* Views of the token stream used by the properties. *)

Last(seq) == seq[Len(seq)]

\* The stream as the tests compare it: Whitespace tokens dropped, each token
\* reduced to its type and lexeme.
Significant(toks) ==
    LET kept == SelectSeq(toks, LAMBDA t : t.type # "WHITESPACE")
    IN  [i \in 1..Len(kept) |-> <<kept[i].type, kept[i].lexeme>>]

\* The step under way is a handler leaving its character unconsumed.
NotConsumed == pc = "consumer" /\ pc' = "consumer" /\ position'.index = position.index

\* The step under way ends with the synthetic newline sent to CONSUMER.
SyntheticNewline == pc = "consumer" /\ pc' = "consumer" /\ position'.index > position.index

\* The character being dispatched is the synthetic newline, not one of source.
AtSyntheticNewline == pc = "consumer" /\ position.index >= Len(source)

----------------------------------------------------------------------------
(* C1 *)

\* One step of the re-dispatch argument: a handler that leaves its character
\* unconsumed is not the Neutral one and has switched to Neutral, the Neutral
\* handler consumes, and the synthetic newline is sent to CONSUMER only once.
C1_Step ==
    /\ NotConsumed => (currentState # "STATE_NONE" /\ currentState' = "STATE_NONE")
    /\ (pc = "consumer" /\ currentState = "STATE_NONE") => position'.index > position.index
    /\ AtSyntheticNewline => ~SyntheticNewline

\* C1: for every finite input tokenize terminates (it reaches its return with
\* a finite stream); the re-dispatch loop cannot cycle, because a handler that
\* reports "not consumed" has switched the state to Neutral and the Neutral
\* handler always consumes its character, and the end-of-input synthetic
\* newline is dispatched at most once.
C1_Terminates == <>(pc = "done") /\ [][C1_Step]_vars

\* A run that re-dispatched the synthetic newline and returned.
C1_Witness ==
    /\ pc = "done"
    /\ position.index = Len(source) + 1
    /\ Len(tokens) >= 2
    /\ Last(tokens).type = "WHITESPACE"

----------------------------------------------------------------------------
(* C2 *)

\* The offset after the whitespace run of src that starts at offset at.
RECURSIVE SkipWhitespace(_, _)
SkipWhitespace(src, at) ==
    IF at < Len(src) /\ CharAt(src, at) \in WhitespaceChars
    THEN SkipWhitespace(src, at + 1)
    ELSE at

\* The lexemes of toks, in order, are src from offset at to its end, once the
\* rest of the whitespace run a Whitespace token stands for is put back after it.
RECURSIVE Reconstructs(_, _, _)
Reconstructs(toks, src, at) ==
    IF toks = <<>> THEN at = Len(src)
    ELSE
        LET lex == Head(toks).lexeme
            end == at + Len(lex)
        IN  /\ end <= Len(src)
            /\ SubSeq(src, at + 1, end) = lex
            /\ Reconstructs(Tail(toks), src,
                            IF Head(toks).type = "WHITESPACE"
                            THEN SkipWhitespace(src, end) ELSE end)

\* C2: round trip modulo whitespace collapse: the lexemes of the returned
\* stream, in order, with each collapsed whitespace run restored at its place,
\* are exactly the source; no source character is missing and no lexeme holds
\* a character that is not in the source.
C2_RoundTrip == pc = "done" => Reconstructs(tokens, source, 0)

----------------------------------------------------------------------------
(* C3 *)

\* C3: when the input ends in a non-Neutral state with a non-empty buffer, the
\* dispatch of the synthetic newline appends a token whose lexeme is the
\* buffered text; no buffered text is dropped and no token is omitted.
C3_EndOfInputFlush ==
    [][ (AtSyntheticNewline /\ currentState # "STATE_NONE" /\ word # <<>>)
        => /\ Len(tokens') = Len(tokens) + 1
           /\ SubSeq(tokens', 1, Len(tokens)) = tokens
           /\ Last(tokens').lexeme = word ]_vars

----------------------------------------------------------------------------
(* C4 *)

\* lex is a concatenation of one or more operators of the table.
RECURSIVE IsOperatorSequence(_)
IsOperatorSequence(lex) ==
    \E n \in 1..Len(lex) :
        /\ isOperator(SubSeq(lex, 1, n))
        /\ (n = Len(lex) \/ IsOperatorSequence(SubSeq(lex, n + 1, Len(lex))))

\* The test "Complex operator sequence": a--+-b++-~a
OperatorSequenceInput == <<"a", "-", "-", "+", "-", "b", "+", "+", "-", "~", "a">>

OperatorSequenceExpected ==
    << <<"IDENTIFIER", <<"a">> >>, <<"OPERATOR", <<"-", "-">> >>,
       <<"OPERATOR", <<"+">> >>, <<"OPERATOR", <<"-">> >>,
       <<"IDENTIFIER", <<"b">> >>, <<"OPERATOR", <<"+", "+">> >>,
       <<"OPERATOR", <<"-">> >>, <<"OPERATOR", <<"~">> >>,
       <<"IDENTIFIER", <<"a">> >> >>

\* C4: a run of operator characters that is a concatenation of table operators
\* is never emitted as one Unknown token, and a--+-b++-~a gives, Whitespace
\* aside, a, --, +, -, b, ++, -, ~, a.
C4_OperatorRunsSplit ==
    /\ \A i \in 1..Len(tokens) :
           tokens[i].type = "UNKNOWN" => ~IsOperatorSequence(tokens[i].lexeme)
    /\ (pc = "done" /\ source = OperatorSequenceInput)
           => Significant(tokens) = OperatorSequenceExpected

----------------------------------------------------------------------------
(* C5 *)

\* The lexeme of t is the text of src at t.position.index.
LexemeAtIndex(t, src) ==
    /\ t.position.index >= 0
    /\ t.position.index + Len(t.lexeme) <= Len(src)
    /\ SubSeq(src, t.position.index + 1, t.position.index + Len(t.lexeme)) = t.lexeme

\* C5: for every emitted token, position.index is the offset of the lexeme's
\* first character: the source at that offset reads the lexeme.
C5_IndexOfFirstChar ==
    \A i \in 1..Len(tokens) : LexemeAtIndex(tokens[i], source)

----------------------------------------------------------------------------
(* C6 *)

\* C6: position monotonicity: consecutive tokens of the stream have
\* non-decreasing position.index, block comments (which report their saved
\* start position) included.
C6_IndexMonotone ==
    \A i \in 1..(Len(tokens) - 1) :
        tokens[i].position.index <= tokens[i + 1].position.index

\* A returned stream with a block comment between two other tokens.
C6_Witness ==
    /\ pc = "done"
    /\ \E i \in 2..(Len(tokens) - 1) :
           /\ tokens[i].type = "BLOCK_COMMENT"
           /\ tokens[i - 1].type # "WHITESPACE"
           /\ tokens[i - 1].position.index < tokens[i].position.index
           /\ tokens[i].position.index < tokens[i + 1].position.index

----------------------------------------------------------------------------
(* C7 *)

\* The test "Unterminated string literal": "Hello
UnterminatedStringInput == <<"\"", "H", "e", "l", "l", "o">>

\* The opening delimiter of the literal the state scans.
Delimiter(state) == IF state = "STATE_LITERAL_STRING" THEN "\"" ELSE "'"

\* A string or char literal meets a newline (of the source, or the synthetic
\* one) before its closing delimiter.
C7_Step ==
    (pc = "consumer" /\ currentState \in {"STATE_LITERAL_STRING", "STATE_LITERAL_CHAR"}
        /\ c = "\n")
    => /\ Len(tokens') = Len(tokens) + 1
       /\ SubSeq(tokens', 1, Len(tokens)) = tokens
       /\ Last(tokens').type = "UNKNOWN"
       /\ Last(tokens').lexeme = word
       /\ word[1] = Delimiter(currentState)
       /\ \A i \in 1..Len(word) : word[i] # "\n"
       /\ word = SubSeq(source, position.index - Len(word) + 1, position.index)
       /\ currentState' = "STATE_NONE"
       /\ word' = <<>>
       /\ position'.index = position.index + 1
       /\ pc' = "loop"

\* C7: an unterminated string or char literal (a newline or the end of input
\* comes before the closing unescaped delimiter) is emitted as exactly one
\* Unknown token whose lexeme is the text from the opening delimiter up to,
\* not including, the newline; the tokenizer is back in Neutral and scanning
\* continues with the next character.  "Hello gives Unknown "Hello.
C7_UnterminatedLiteral ==
    /\ [][C7_Step]_vars
    /\ [](pc = "done"
             => currentState \notin {"STATE_LITERAL_STRING", "STATE_LITERAL_CHAR"})
    /\ []((pc = "done" /\ source = UnterminatedStringInput)
             => Significant(tokens) = << <<"UNKNOWN", UnterminatedStringInput>> >>)

\* An unterminated literal cut by a newline of the source, with a token after it.
C7_Witness ==
    /\ pc = "done"
    /\ \E i \in 1..(Len(tokens) - 1) :
           /\ tokens[i].type = "UNKNOWN"
           /\ Len(tokens[i].lexeme) >= 2
           /\ tokens[i].lexeme[1] \in {"\"", "'"}
           /\ tokens[i + 1].type = "IDENTIFIER"

----------------------------------------------------------------------------
(* C8 *)

\* The whitespace character under dispatch starts a maximal whitespace run
\* of the source.
StartsWhitespaceRun ==
    /\ pc = "consumer"
    /\ currentState = "STATE_NONE"
    /\ position.index < Len(source)
    /\ c \in WhitespaceChars
    /\ (position.index = 0 \/ CharAt(source, position.index - 1) \notin WhitespaceChars)

\* C8: every maximal run of whitespace scanned in Neutral, a run at the very
\* start of the input included, is represented by exactly one Whitespace token
\* whose lexeme is the run's first character.
C8_OneTokenPerRun ==
    [][ StartsWhitespaceRun
        => /\ Len(tokens') = Len(tokens) + 1
           /\ Last(tokens').type = "WHITESPACE"
           /\ Last(tokens').lexeme = <<c>> ]_vars

----------------------------------------------------------------------------
(* C9 *)

Arrow == <<"-", ">">>

\* The test "Lambda Expression": ($arg1)->{/*Comment*/}
LambdaInput ==
    <<"(", "$", "a", "r", "g", "1", ")", "-", ">", "{", "/", "*", "C", "o", "m",
      "m", "e", "n", "t", "*", "/", "}">>

LambdaExpected ==
    << <<"SYMBOL", <<"(">> >>, <<"IDENTIFIER", <<"$", "a", "r", "g", "1">> >>,
       <<"SYMBOL", <<")">> >>, <<"SYMBOL", Arrow>>, <<"SYMBOL", <<"{">> >>,
       <<"BLOCK_COMMENT", <<"/", "*", "C", "o", "m", "m", "e", "n", "t", "*", "/">> >>,
       <<"SYMBOL", <<"}">> >> >>

\* InOperator holds exactly -> and meets a character that is no operator character.
C9_Step ==
    (pc = "consumer" /\ currentState = "STATE_OPERATORS" /\ word = Arrow
        /\ ~isOperatorStart(<<c>>))
    => /\ Len(tokens') = Len(tokens) + 1
       /\ SubSeq(tokens', 1, Len(tokens)) = tokens
       /\ Last(tokens').type = "SYMBOL"
       /\ Last(tokens').lexeme = Arrow

\* C9: -> is always classified as Symbol, never Operator: a buffer -> ended by
\* a non-operator character gives exactly one token Symbol ->, and
\* ($arg1)->{/*Comment*/} gives (, $arg1, ), ->, {, /*Comment*/, }.
C9_ArrowIsSymbol ==
    /\ [][C9_Step]_vars
    /\ [](\A i \in 1..Len(tokens) :
              tokens[i].lexeme = Arrow => tokens[i].type = "SYMBOL")
    /\ []((pc = "done" /\ source = LambdaInput) => Significant(tokens) = LambdaExpected)

\* A returned stream that holds the arrow between two other tokens.
C9_Witness ==
    /\ pc = "done"
    /\ source # LambdaInput
    /\ \E i \in 2..(Len(tokens) - 1) :
           tokens[i].lexeme = Arrow /\ tokens[i].type = "SYMBOL"

----------------------------------------------------------------------------
(* C10 *)

\* core, a hex or binary lexeme without its suffix, has a digit after the prefix.
HasDigitAfterPrefix(core, isBinary) ==
    \E i \in 3..Len(core) : isHexOrBinaryNumber(core[i], isBinary)

\* InHex or InBinary finalizes its literal.
C10_Step ==
    (pc = "consumer" /\ currentState \in {"STATE_HEX", "STATE_BINARY"}
        /\ currentState' = "STATE_NONE")
    => LET isBinary == currentState = "STATE_BINARY"
           suffix == c \in {"l", "L"}
           t == Last(tokens')
       IN  /\ Len(tokens') = Len(tokens) + 1
           /\ SubSeq(tokens', 1, Len(tokens)) = tokens
           /\ t.lexeme = (IF suffix THEN Append(word, c) ELSE word)
           /\ t.type = (IF HasDigitAfterPrefix(word, isBinary)
                        THEN (IF isBinary THEN "BINARY_NUMBER" ELSE "HEX_NUMBER")
                        ELSE "UNKNOWN")
           /\ suffix <=> position'.index = position.index + 1
           /\ ~suffix => NotConsumed

\* C10: a hex or binary literal is HexNumber / BinaryNumber exactly when its
\* lexeme without the optional l/L suffix has a valid digit after the prefix;
\* a bare prefix, with or without the suffix, is one Unknown token covering
\* the attempted literal, and the terminating non-suffix character is not
\* part of the token.
C10_HexBinaryKind == [][C10_Step]_vars

\* A returned stream with a bare prefix and the suffix as one Unknown token.
C10_Witness ==
    /\ pc = "done"
    /\ \E i \in 1..Len(tokens) :
           /\ tokens[i].type = "UNKNOWN"
           /\ Len(tokens[i].lexeme) = 3
           /\ tokens[i].lexeme[1] = "0"
           /\ tokens[i].lexeme[3] = "L"

----------------------------------------------------------------------------
(* C11 *)

NumberStates == {"STATE_NUMBERS", "STATE_HEX", "STATE_BINARY"}

\* The digits of the radix a numeric state scans.
RadixDigits(state) ==
    IF state = "STATE_BINARY" THEN {"0", "1"}
    ELSE IF state = "STATE_HEX"
         THEN DecimalDigits \cup {"a", "b", "c", "d", "e", "f", "A", "B", "C", "D", "E", "F"}
         ELSE DecimalDigits

\* The offset of the first character of src at or after at that is no underscore.
RECURSIVE SkipUnderscores(_, _)
SkipUnderscores(src, at) ==
    IF at < Len(src) /\ CharAt(src, at) = "_" THEN SkipUnderscores(src, at + 1) ELSE at

\* The underscore at offset at has a digit of the radix to its left and its
\* run of underscores ends at a digit of the radix.
ValidUnderscoreRun(src, at, state) ==
    /\ at > 0
    /\ CharAt(src, at - 1) \in RadixDigits(state)
    /\ SkipUnderscores(src, at) < Len(src)
    /\ CharAt(src, SkipUnderscores(src, at)) \in RadixDigits(state)

C11_Step ==
    /\ (pc = "consumer" /\ currentState \in NumberStates
           /\ position.index < Len(source) /\ c = "_")
       => IF ValidUnderscoreRun(source, position.index, currentState)
          THEN LET end == SkipUnderscores(source, position.index) IN
               /\ tokens' = tokens
               /\ currentState' = currentState
               /\ word' = word \o SubSeq(source, position.index + 1, end + 1)
               /\ position'.index = end + 1
          ELSE /\ Len(tokens') = Len(tokens) + 1
               /\ SubSeq(tokens', 1, Len(tokens)) = tokens
               /\ Last(tokens').lexeme = word
               /\ currentState' = "STATE_NONE"
               /\ NotConsumed
               /\ c' = "_"
    /\ (pc = "consumer" /\ currentState = "STATE_NONE" /\ c = "_")
       => /\ tokens' = tokens
          /\ currentState' = "STATE_WORD"
          /\ word' = <<"_">>

\* C11: an underscore inside a numeric literal (decimal, hex or binary) is
\* consumed into the number only when its left neighbour is a digit of the
\* radix and its run of underscores ends at such a digit; otherwise nothing is
\* consumed, the literal is finalized before the underscore and the underscore
\* is dispatched again from Neutral as the start of the next token.
C11_UnderscoreInNumber == [][C11_Step]_vars

\* A returned stream with an underscore inside a number and an underscore
\* that was refused and started the next token.
C11_Witness ==
    /\ pc = "done"
    /\ \E i \in 1..(Len(tokens) - 1) :
           /\ tokens[i].type \in {"NUMBER", "HEX_NUMBER", "BINARY_NUMBER"}
           /\ \E k \in 1..Len(tokens[i].lexeme) : tokens[i].lexeme[k] = "_"
           /\ tokens[i + 1].lexeme[1] = "_"

----------------------------------------------------------------------------
(* C12 *)

\* s is digits and underscores, with a digit first and last.
IsDigitGroup(s) ==
    /\ Len(s) >= 1
    /\ s[1] \in DecimalDigits
    /\ s[Len(s)] \in DecimalDigits
    /\ \A i \in 1..Len(s) : s[i] \in DecimalDigits \cup {"_"}

HasChar(s, ch) == \E i \in 1..Len(s) : s[i] = ch

\* b is a digit group, or two digit groups around one decimal point.
IsDecimalBody(b) ==
    \/ IsDigitGroup(b)
    \/ \E k \in 2..(Len(b) - 1) :
           /\ b[k] = "."
           /\ IsDigitGroup(SubSeq(b, 1, k - 1))
           /\ IsDigitGroup(SubSeq(b, k + 1, Len(b)))

\* src is a decimal literal with underscores: a body and an optional suffix,
\* l/L only without a decimal point.
IsUnderscoreDecimal(src) ==
    /\ HasChar(src, "_")
    /\ \/ IsDecimalBody(src)
       \/ /\ Len(src) >= 2
          /\ IsDecimalBody(SubSeq(src, 1, Len(src) - 1))
          /\ \/ Last(src) \in {"f", "F", "d", "D"}
             \/ Last(src) \in {"l", "L"} /\ ~HasChar(src, ".")

\* C12: a decimal literal with valid interior underscore runs of any length,
\* on either side of the decimal point and before a type suffix, is emitted
\* as exactly one Number token whose lexeme is the whole literal; the cursor
\* is left past a consumed run and the digit that ends it, so the buffer of
\* InNumber is always the source text just before the cursor.
C12_UnderscoreLiteral ==
    /\ (pc = "done" /\ IsUnderscoreDecimal(source))
           => Significant(tokens) = << <<"NUMBER", source>> >>
    /\ (currentState = "STATE_NUMBERS" /\ pc \in {"loop", "consumer"})
           => word = SubSeq(source, position.index - Len(word) + 1, position.index)

\* The literal of the test with runs on both sides of the point, returned.
C12_Witness ==
    /\ pc = "done"
    /\ IsUnderscoreDecimal(source)
    /\ \E i, j, k \in 1..Len(source) :
           i < j /\ j < k /\ source[i] = "_" /\ source[j] = "." /\ source[k] = "_"
    /\ tokens[1].lexeme = source

----------------------------------------------------------------------------
(* C13 *)

\* src is one run of decimal digits: a well-formed integer literal.
IsDigitsOnly(src) ==
    Len(src) >= 1 /\ \A i \in 1..Len(src) : src[i] \in DecimalDigits

\* The kind of a source that is one literal or one word, "NONE" for any other.
SoleKind(src) ==
    IF IsDigitsOnly(src) THEN "NUMBER"
    ELSE IF isKeyword(src) THEN "KEYWORD"
    ELSE IF isIdentifier(src) THEN "IDENTIFIER"
    ELSE "NONE"

\* C13: an input that is solely one well-formed literal or word with no
\* trailing characters produces a stream of exactly one token, of the
\* matching kind and with the whole input as lexeme; the end-of-input
\* handling appends no additional token.
C13_SoleToken ==
    (pc = "done" /\ SoleKind(source) # "NONE")
        => /\ Len(tokens) = 1
           /\ tokens[1].type = SoleKind(source)
           /\ tokens[1].lexeme = source

----------------------------------------------------------------------------
(* C14 *)

\* ch starts no comment, string, char, number, operator, symbol, whitespace
\* or identifier.
StartsNothing(ch) ==
    /\ ch \notin {"/", "\"", "'", "@", "_", "$"}
    /\ ch \notin DecimalDigits \cup LowerCase \cup UpperCase \cup WhitespaceChars
    /\ <<ch>> \notin java_symbols
    /\ ch \notin java_operators_starter

\* The number of positions of s that satisfy StartsNothing.
RECURSIVE CountStartsNothing(_)
CountStartsNothing(s) ==
    IF s = <<>> THEN 0
    ELSE (IF StartsNothing(s[1]) THEN 1 ELSE 0) + CountStartsNothing(Tail(s))

\* The number of tokens of ts that are Unknown with a lexeme of one such character.
RECURSIVE CountUnknownOfOne(_)
CountUnknownOfOne(ts) ==
    IF ts = <<>> THEN 0
    ELSE (IF ts[1].type = "UNKNOWN" /\ Len(ts[1].lexeme) = 1
              /\ StartsNothing(ts[1].lexeme[1]) THEN 1 ELSE 0)
         + CountUnknownOfOne(Tail(ts))

\* No string, char or comment can open in src.
NoLiteralOrComment(src) == ~HasChar(src, "\"") /\ ~HasChar(src, "'") /\ ~HasChar(src, "/")

UnknownInput == <<"a", " ", "+", " ", "#">>

C14_Step ==
    /\ (pc = "consumer" /\ currentState = "STATE_NONE" /\ StartsNothing(c))
       => /\ Len(tokens') = Len(tokens) + 1
          /\ SubSeq(tokens', 1, Len(tokens)) = tokens
          /\ Last(tokens').type = "UNKNOWN"
          /\ Last(tokens').lexeme = <<c>>
          /\ currentState' = "STATE_NONE"
          /\ word' = <<>>
          /\ ~NotConsumed
    /\ (pc = "consumer" /\ StartsNothing(c)
           /\ currentState \in {"STATE_WORD", "STATE_OPERATORS", "STATE_NUMBERS"})
       => /\ currentState' = "STATE_NONE"
          /\ Len(tokens') = Len(tokens) + 1
          /\ Last(tokens').lexeme = word
          /\ NotConsumed
    /\ (pc' = "done" /\ NoLiteralOrComment(source))
       => /\ CountUnknownOfOne(tokens') = CountStartsNothing(source)
          /\ \A i \in 1..Len(tokens') : \A k \in 1..Len(tokens'[i].lexeme) :
                 StartsNothing(tokens'[i].lexeme[k]) => Len(tokens'[i].lexeme) = 1
    /\ (pc' = "done" /\ source = UnknownInput)
       => Significant(tokens') = << <<"IDENTIFIER", <<"a">> >>, <<"OPERATOR", <<"+">> >>,
                                    <<"UNKNOWN", <<"#">> >> >>

\* C14: a character met in Neutral that starts no recognized construct is
\* emitted as an Unknown token of length exactly one and the state stays
\* Neutral; it ends the word, operator or number before it, which is
\* finalized without it, and what follows starts a new token.
C14_UnknownCharacter == [][C14_Step]_vars

\* A returned stream with such a character between two identifiers.
C14_Witness ==
    /\ pc = "done"
    /\ \E i \in 2..(Len(tokens) - 1) :
           /\ tokens[i].type = "UNKNOWN"
           /\ Len(tokens[i].lexeme) = 1
           /\ StartsNothing(tokens[i].lexeme[1])
           /\ tokens[i - 1].type = "IDENTIFIER"
           /\ tokens[i + 1].type = "IDENTIFIER"

----------------------------------------------------------------------------
(* C15 *)

\* The kinds getTokenType can return, highest precedence first.
Precedence ==
    <<"KEYWORD", "OPERATOR", "IDENTIFIER", "WHITESPACE", "SYMBOL", "ANNOTATION", "UNKNOWN">>

\* lex, without its first character.
AfterAt(lex) == SubSeq(lex, 2, Len(lex))

\* lex is a letter, underscore or dollar followed by such characters and digits.
IdentifierShape(lex) ==
    /\ Len(lex) >= 1
    /\ lex[1] \in IdentifierStarters
    /\ \A i \in 2..Len(lex) : lex[i] \in IdentifierLetters

\* lex has the shape of the kind, whatever other shapes it has.
HasShape(kind, lex) ==
    CASE kind = "KEYWORD" -> lex \in java_keywords
      [] kind = "OPERATOR" -> lex \in java_operators
      [] kind = "IDENTIFIER" -> IdentifierShape(lex)
      [] kind = "WHITESPACE" ->
             Len(lex) >= 1 /\ \A i \in 1..Len(lex) : lex[i] \in WhitespaceChars
      [] kind = "SYMBOL" -> lex \in java_symbols
      [] kind = "ANNOTATION" ->
             /\ Len(lex) >= 2
             /\ lex[1] = "@"
             /\ IdentifierShape(AfterAt(lex))
             /\ AfterAt(lex) \notin java_keywords
      [] OTHER -> TRUE

\* The first kind, in the order of Precedence, whose shape lex has.
FirstShape(lex) ==
    Precedence[CHOOSE i \in 1..Len(Precedence) :
                   /\ HasShape(Precedence[i], lex)
                   /\ \A j \in 1..(i - 1) : ~HasShape(Precedence[j], lex)]

\* C15: getTokenType returns the kind given by the fixed precedence keyword >
\* operator > identifier > whitespace > symbol > annotation > unknown: a
\* table keyword is Keyword even with identifier or annotation shape, and
\* '@' followed by text is Annotation only when the text is a valid
\* identifier that is not a reserved word, otherwise Unknown.
C15_ClassifyPrecedence ==
    pc = "classified"
        => LET kind == tokens[1].type IN
           /\ kind = FirstShape(source)
           /\ source \in java_keywords => kind = "KEYWORD"
           /\ (Len(source) >= 2 /\ source[1] = "@" /\ source \notin java_keywords)
                  => kind = IF IdentifierShape(AfterAt(source))
                                  /\ AfterAt(source) \notin java_keywords
                            THEN "ANNOTATION" ELSE "UNKNOWN"

\* @interface, a keyword with the shape of an annotation, has been classified
\* as a keyword.
C15_Witness ==
    /\ pc = "classified"
    /\ source = <<"@", "i", "n", "t", "e", "r", "f", "a", "c", "e">>
    /\ tokens[1].type = "KEYWORD"

----------------------------------------------------------------------------
(* C16 *)

\* Every access of tokenize is inside the source, and what it has appended
\* is a token of a declared type whose lexeme is made of characters of the
\* source and of the newline of the end of input.
C16_Safe ==
    /\ (pc = "done" /\ source = <<>>) => tokens = <<>>
    /\ pc \in {"loop", "consumer", "done"}
    /\ position.index >= 0 /\ position.index <= Len(source) + 1
    /\ pc = "consumer" => position.index <= Len(source)
    /\ (pc = "consumer" /\ position.index < Len(source)) => c = source[position.index + 1]
    /\ (pc = "consumer" /\ position.index = Len(source)) => c = "\n"
    /\ \A i \in 1..Len(tokens) :
           /\ tokens[i].type \in TokenTypes
           /\ tokens[i].lexeme # <<>>
           /\ \A k \in 1..Len(tokens[i].lexeme) :
                  \/ tokens[i].lexeme[k] = "\n"
                  \/ HasChar(source, tokens[i].lexeme[k])

\* C16: tokenize on the empty input returns the empty stream, and fails on
\* no input: every access stays inside the source, every run returns, and a
\* malformed construct is only ever a token of the stream.
C16_Total == []C16_Safe /\ <>(pc = "done")

\* The empty input has been tokenized.
C16_Witness == pc = "done" /\ source = <<>> /\ tokens = <<>>

----------------------------------------------------------------------------
(* C17 *)

C17_Step ==
    (pc = "consumer" /\ currentState = "STATE_LINE_COMMENT" /\ c = "\n"
         /\ position.index < Len(source))
        => /\ Len(tokens') = Len(tokens) + 1
           /\ Last(tokens').type = "LINE_COMMENT"
           /\ Last(tokens').lexeme = word
           /\ ~HasChar(word, "\n")
           /\ currentState' = "STATE_NONE"
           /\ NotConsumed

\* C17: when InLineComment meets a newline it emits a LineComment token whose
\* lexeme excludes the newline and returns to Neutral without consuming the
\* newline, which is then dispatched again in Neutral.
C17_NewlineRedispatched == [][C17_Step]_vars

----------------------------------------------------------------------------
(* C18 *)

\* lex reads "*/" at positions k and k + 1.
ClosesAt(lex, k) == k >= 1 /\ k < Len(lex) /\ lex[k] = "*" /\ lex[k + 1] = "/"

\* lex is "/*", text with no "*/" in it, and a "*/" of its own.
IsBlockCommentLexeme(lex) ==
    /\ Len(lex) >= 4
    /\ lex[1] = "/" /\ lex[2] = "*"
    /\ ClosesAt(lex, Len(lex) - 1)
    /\ \A k \in 3..(Len(lex) - 2) : ~ClosesAt(lex, k)

\* C18: a BlockComment token is emitted exactly when a closing */ is
\* completed after the opening /*, whose '*' is never reused as the '*' of
\* the closing delimiter: every BlockComment lexeme starts with /*, ends with
\* */, has length at least 4 and contains no earlier */ after its opening.
C18_BlockCommentDelimiters ==
    \A i \in 1..Len(tokens) :
        tokens[i].type = "BLOCK_COMMENT" => IsBlockCommentLexeme(tokens[i].lexeme)

----------------------------------------------------------------------------
(* C19 *)

\* src reads lex at offset at.
ReadsAt(src, lex, at) ==
    at + Len(lex) <= Len(src) /\ SubSeq(src, at + 1, at + Len(lex)) = lex

\* The least offset from at on at which src reads lex, Len(src) if none.
RECURSIVE FindFrom(_, _, _)
FindFrom(src, lex, at) ==
    IF at >= Len(src) THEN Len(src)
    ELSE IF ReadsAt(src, lex, at) THEN at
    ELSE FindFrom(src, lex, at + 1)

\* The offset of the first character of token i of toks in src: the tokens
\* are in source order, with nothing but dropped whitespace between them.
RECURSIVE StartOf(_, _, _)
StartOf(src, toks, i) ==
    FindFrom(src, toks[i].lexeme,
             IF i = 1 THEN 0 ELSE StartOf(src, toks, i - 1) + Len(toks[i - 1].lexeme))

\* The offsets before at at which src has a newline.
NewlinesBefore(src, at) == {k \in 1..at : src[k] = "\n"}

\* The 1-based line of the character at offset at.
LineAt(src, at) == 1 + Cardinality(NewlinesBefore(src, at))

\* The 1-based column of the character at offset at.
ColumnAt(src, at) ==
    LET last == IF NewlinesBefore(src, at) = {} THEN 0
                ELSE CHOOSE k \in NewlinesBefore(src, at) :
                         \A m \in NewlinesBefore(src, at) : m <= k
    IN  1 + (at - last)

\* C19: for every token of the returned stream that is no whitespace,
\* position.line and position.column are the 1-based line and column of the
\* first character of the lexeme in the source, whatever tokens precede it
\* on the same line.
C19_LineAndColumn ==
    pc = "done"
        => \A i \in 1..Len(tokens) :
               tokens[i].type # "WHITESPACE"
                   => /\ tokens[i].position.line = LineAt(source, StartOf(source, tokens, i))
                      /\ tokens[i].position.column = ColumnAt(source, StartOf(source, tokens, i))

----------------------------------------------------------------------------
(* C20 *)

\* The step appends exactly one token.
AppendsOne == Len(tokens') = Len(tokens) + 1 /\ SubSeq(tokens', 1, Len(tokens)) = tokens

C20_Step ==
    /\ \A i \in 1..(Len(tokens') - 1) :
           ~(tokens'[i].type = "WHITESPACE" /\ tokens'[i + 1].type = "WHITESPACE")
    /\ \A i \in 1..Len(tokens') :
           tokens'[i].type = "WHITESPACE" => Len(tokens'[i].lexeme) = 1
    /\ (pc = "consumer" /\ currentState = "STATE_NONE" /\ c \in WhitespaceChars)
       => /\ IF tokens # <<>> /\ Last(tokens).type # "WHITESPACE"
             THEN AppendsOne /\ Last(tokens').type = "WHITESPACE"
                             /\ Last(tokens').lexeme = <<c>>
             ELSE tokens' = tokens
          /\ currentState' = "STATE_NONE"
          /\ position'.index = position.index + 1
          /\ IF c = "\n"
             THEN position'.line = position.line + 1 /\ position'.column = 1
             ELSE position'.line = position.line /\ position'.column = position.column + 1

\* C20: the stream never contains two consecutive Whitespace tokens and every
\* Whitespace token has a lexeme of length exactly one: in Neutral a
\* Whitespace token is appended only if the most recently appended token is
\* not Whitespace, while every whitespace character advances the position
\* tracker.
C20_WhitespaceTokens == [][C20_Step]_vars

\* A returned stream for a source with a run of two whitespace characters
\* after a token, the first of them kept as a Whitespace token.
C20_Witness ==
    /\ pc = "done"
    /\ \E i \in 2..(Len(source) - 1) :
           /\ source[i - 1] \notin WhitespaceChars
           /\ source[i] \in WhitespaceChars
           /\ source[i + 1] \in WhitespaceChars
           /\ \E k \in 2..Len(tokens) :
                  /\ tokens[k].type = "WHITESPACE"
                  /\ tokens[k].lexeme = <<source[i]>>
                  /\ tokens[k - 1].type = "IDENTIFIER"

----------------------------------------------------------------------------
(* C21 *)

\* The states whose handler can leave its character unconsumed.
AccumulatingStates ==
    {"STATE_WORD", "STATE_OPERATORS", "STATE_NUMBERS", "STATE_HEX", "STATE_BINARY"}

\* s is a proper prefix of t.
IsProperPrefix(s, t) == Len(s) < Len(t) /\ SubSeq(t, 1, Len(s)) = s

\* The character is a continuation: the buffer grows, no token is appended.
Continues ==
    /\ tokens' = tokens
    /\ currentState' = currentState
    /\ IsProperPrefix(word, word')
    /\ position'.index > position.index

\* The character is an accepted suffix: it ends the token and is part of it.
EndsWithSuffix ==
    /\ AppendsOne
    /\ Last(tokens').lexeme = Append(word, c)
    /\ currentState' = "STATE_NONE"
    /\ word' = <<>>
    /\ position'.index > position.index

\* The character is neither: the token is the buffer, and the same character
\* is at CONSUMER again with the state Neutral.
HandsOver ==
    /\ AppendsOne
    /\ Last(tokens').lexeme = word
    /\ currentState' = "STATE_NONE"
    /\ word' = <<>>
    /\ NotConsumed
    /\ c' = c

C21_Step ==
    /\ (pc = "consumer" /\ currentState \in AccumulatingStates)
       => \/ Continues
          \/ EndsWithSuffix /\ currentState \notin {"STATE_WORD", "STATE_OPERATORS"}
          \/ HandsOver
    /\ (pc = "consumer" /\ currentState = "STATE_WORD")
       => (HandsOver <=> c \notin IdentifierLetters)
    /\ (pc = "consumer" /\ currentState = "STATE_OPERATORS")
       => (HandsOver <=> c \notin java_operators_starter)
    /\ (pc = "consumer" /\ currentState = "STATE_NONE"
           /\ tokens # <<>> /\ Last(tokens).type # "WHITESPACE")
       => /\ position'.index > position.index
          /\ IF currentState' = "STATE_NONE"
             THEN AppendsOne /\ Last(tokens').lexeme[1] = c
             ELSE tokens' = tokens /\ word' = <<c>>

\* C21: when InWord, InOperator, InNumber, InHex or InBinary meets a
\* character that is neither a continuation nor an accepted type suffix, it
\* emits its token, returns to Neutral and does not consume the character;
\* the character is dispatched again in Neutral in the same iteration and is
\* the first character of the next buffer or of a token of its own, so it is
\* in the lexeme just emitted not at all and in what follows once.
C21_HandOver == [][C21_Step]_vars

\* An identifier, an operator and a number with nothing between them: each
\* was ended by the first character of the next.
C21_Witness ==
    /\ pc = "done"
    /\ Len(tokens) >= 3
    /\ tokens[1].type = "IDENTIFIER"
    /\ tokens[2].type = "OPERATOR"
    /\ tokens[3].type = "NUMBER"
    /\ Len(tokens[1].lexeme) + Len(tokens[2].lexeme) + Len(tokens[3].lexeme) = Len(source)

----------------------------------------------------------------------------
(* C22 *)

\* The number of positions of s whose character is in set.
RECURSIVE CountIn(_, _)
CountIn(s, set) ==
    IF s = <<>> THEN 0
    ELSE (IF s[1] \in set THEN 1 ELSE 0) + CountIn(Tail(s), set)

ExponentMarkers == {"e", "E"}

Signs == {"+", "-"}

\* lex has at most one point and one exponent marker, every marker is
\* followed by a digit or a sign and every sign follows a marker.
IsOnceEach(lex) ==
    /\ CountIn(lex, {"."}) <= 1
    /\ CountIn(lex, ExponentMarkers) <= 1
    /\ \A k \in 1..Len(lex) :
           /\ lex[k] \in ExponentMarkers
                  => k < Len(lex) /\ lex[k + 1] \in DecimalDigits \cup Signs
           /\ lex[k] \in Signs => k > 1 /\ lex[k - 1] \in ExponentMarkers

C22_Step ==
    /\ \A i \in 1..Len(tokens') :
           tokens'[i].type = "NUMBER" => IsOnceEach(tokens'[i].lexeme)
    /\ (pc = "consumer" /\ currentState = "STATE_NUMBERS" /\ c = ".")
       => IF HasChar(word, ".") THEN HandsOver
          ELSE Continues /\ word' = Append(word, c)
    /\ (pc = "consumer" /\ currentState = "STATE_NUMBERS" /\ c \in ExponentMarkers)
       => IF CountIn(word, ExponentMarkers) = 0 /\ next_c \in DecimalDigits \cup Signs
          THEN Continues /\ word' = Append(word, c)
          ELSE HandsOver
    /\ (pc = "consumer" /\ currentState = "STATE_NUMBERS" /\ c \in Signs)
       => IF Last(word) \in ExponentMarkers
          THEN Continues /\ word' = Append(word, c)
          ELSE HandsOver
    /\ (pc = "consumer" /\ currentState = "STATE_NONE" /\ c = "."
           /\ tokens # <<>> /\ Last(tokens).type = "NUMBER")
       => IF next_c \in DecimalDigits
          THEN currentState' = "STATE_NUMBERS" /\ word' = <<".">>
          ELSE AppendsOne /\ Last(tokens').type = "SYMBOL"

\* C22: in InNumber a decimal point is accepted at most once per literal and
\* an exponent marker at most once, the marker only when the next character
\* is a digit or a sign and a sign only immediately after the marker; every
\* Number lexeme has at most one point and one marker, and a second point or
\* marker ends the literal and starts a new token.
C22_PointAndExponentOnce == [][C22_Step]_vars

\* Two numbers side by side, the second opened by the second point.
C22_Witness ==
    /\ pc = "done"
    /\ \E i \in 1..(Len(tokens) - 1) :
           /\ tokens[i].type = "NUMBER"
           /\ HasChar(tokens[i].lexeme, ".")
           /\ tokens[i + 1].type = "NUMBER"
           /\ tokens[i + 1].lexeme[1] = "."

----------------------------------------------------------------------------
(* C23 *)

FloatSuffixes == {"f", "F", "d", "D"}

LongSuffixes == {"l", "L"}

\* The literal in the buffer has used a decimal point or an exponent.
UsedPointOrExponent(w) == HasChar(w, ".") \/ CountIn(w, ExponentMarkers) > 0

C23_Step ==
    /\ \A i \in 1..Len(tokens') :
           (tokens'[i].type = "NUMBER" /\ Last(tokens'[i].lexeme) \in LongSuffixes)
               => ~UsedPointOrExponent(tokens'[i].lexeme)
    /\ (pc = "consumer" /\ currentState = "STATE_NUMBERS" /\ c \in FloatSuffixes)
       => EndsWithSuffix /\ Last(tokens').type = "NUMBER"
    /\ (pc = "consumer" /\ currentState = "STATE_NUMBERS" /\ c \in LongSuffixes)
       => IF UsedPointOrExponent(word)
          THEN HandsOver /\ Last(tokens').type = "NUMBER"
          ELSE EndsWithSuffix /\ Last(tokens').type = "NUMBER"
    /\ (pc = "consumer" /\ currentState = "STATE_NONE" /\ c \in LongSuffixes
           /\ tokens # <<>> /\ Last(tokens).type = "NUMBER")
       => tokens' = tokens /\ currentState' = "STATE_WORD" /\ word' = <<c>>

\* C23: a trailing f, F, d or D is always included in the Number lexeme; l
\* or L is included only if the literal used neither a decimal point nor an
\* exponent, so a Number lexeme ending in l/L has no '.' and no e/E, and in
\* 1.5L or 1e5L the L is not part of the Number token but starts the next.
C23_TypeSuffix == [][C23_Step]_vars

\* A literal with a point followed by L: the number without it, then a word.
C23_Witness ==
    /\ pc = "done"
    /\ Len(tokens) >= 2
    /\ tokens[1].type = "NUMBER"
    /\ HasChar(tokens[1].lexeme, ".")
    /\ Len(tokens[1].lexeme) < Len(source)
    /\ source[Len(tokens[1].lexeme) + 1] = "L"
    /\ tokens[2].type = "IDENTIFIER"
    /\ tokens[2].lexeme[1] = "L"

----------------------------------------------------------------------------
(* C24 *)

C24_Step ==
    (pc = "consumer" /\ currentState = "STATE_NONE" /\ c = "@")
        => IF next_c \in IdentifierStarters
           THEN /\ tokens' = tokens
                /\ currentState' = "STATE_WORD"
                /\ word' = <<"@">>
           ELSE /\ AppendsOne
                /\ Last(tokens').type = "SYMBOL"
                /\ Last(tokens').lexeme = <<"@">>
                /\ currentState' = "STATE_NONE"
                /\ word' = <<>>

\* C24: in Neutral '@' switches to InWord only when the next character is an
\* identifier-start character ([A-Za-z_$]); '@' followed by anything else,
\* a digit included, is emitted as the one-character Symbol "@" and the
\* following character is tokenized on its own.
C24_AtSign == [][C24_Step]_vars

----------------------------------------------------------------------------
(* C25 *)

C25_Step ==
    (pc = "consumer" /\ currentState = "STATE_NONE" /\ currentState' = "STATE_NUMBERS")
        => /\ numberInfo'.hasUsedE = FALSE
           /\ numberInfo'.hasUsedDot = (c = ".")
           /\ word' = <<c>>

\* C25: the flags of the number scan never leak between literals: each time
\* Neutral switches to InNumber, hasUsedE is false and hasUsedDot is true
\* exactly when the first character of the literal is '.', whatever an
\* earlier numeric literal contained.
C25_FlagsReset == [][C25_Step]_vars

\* A literal of digits has just been opened after a literal with a point.
C25_Witness ==
    /\ currentState = "STATE_NUMBERS"
    /\ Len(word) = 1
    /\ word[1] \in DecimalDigits
    /\ numberInfo = [hasUsedDot |-> FALSE, hasUsedE |-> FALSE]
    /\ \E i \in 1..Len(tokens) :
           tokens[i].type = "NUMBER" /\ HasChar(tokens[i].lexeme, ".")

----------------------------------------------------------------------------
(* C26 *)

\* The character reaches the symbol branch of Neutral: it is a symbol of the
\* table and opens neither an annotation nor a number.
DispatchedAsSymbol ==
    /\ pc = "consumer"
    /\ currentState = "STATE_NONE"
    /\ <<c>> \in java_symbols
    /\ ~(c = "@" /\ next_c \in IdentifierLetters)
    /\ ~(c = "." /\ next_c \in DecimalDigits)

TripleColonInput == <<":", ":", ":">>

C26_Step ==
    /\ DispatchedAsSymbol
       => /\ AppendsOne
          /\ Last(tokens').type = "SYMBOL"
          /\ currentState' = "STATE_NONE"
          /\ word' = <<>>
          /\ IF c = ":" /\ next_c = ":"
             THEN /\ Last(tokens').lexeme = <<":", ":">>
                  /\ position'.index = position.index + 2
             ELSE /\ Last(tokens').lexeme = <<c>>
                  /\ position'.index = position.index + 1
    /\ (pc' = "done" /\ source = TripleColonInput)
       => /\ Len(tokens') = 2
          /\ tokens'[1].type = "SYMBOL" /\ tokens'[1].lexeme = <<":", ":">>
          /\ tokens'[2].type = "SYMBOL" /\ tokens'[2].lexeme = <<":">>

\* C26: in Neutral two adjacent colons are merged by one character of
\* lookahead into one Symbol token "::" and the cursor skips both; every
\* other symbol character is a Symbol token of length one, and ":::" gives
\* Symbol "::" followed by Symbol ":".
C26_DoubleColon == [][C26_Step]_vars

\* Three colons have been tokenized.
C26_Witness ==
    /\ pc = "done"
    /\ source = TripleColonInput
    /\ Len(tokens) = 2
    /\ tokens[1].lexeme = <<":", ":">>

----------------------------------------------------------------------------
(* C27 *)

\* At the head of the loop one state is active, and the buffer is empty
\* exactly when it is Neutral.
C27_LoopHead ==
    /\ currentState \in TokenizerStates
    /\ pc = "loop" => (word = <<>> <=> currentState = "STATE_NONE")

C27_Step ==
    /\ Len(tokens') > Len(tokens) => (word' = <<>> /\ currentState' = "STATE_NONE")
    /\ (currentState = "STATE_NONE" /\ currentState' # "STATE_NONE") => word' = <<c>>
    /\ (currentState # "STATE_NONE" /\ currentState' # "STATE_NONE")
           => currentState' = currentState

\* C27: at the head of every iteration of the main loop exactly one
\* tokenizer state is active and the buffer is empty if and only if that
\* state is Neutral: every finalization empties the buffer and returns to
\* Neutral, and every transition out of Neutral leaves the triggering
\* character in the buffer.
C27_BufferAndState == []C27_LoopHead /\ [][C27_Step]_vars

\* The head of the loop inside a token that follows an emitted one.
C27_Witness ==
    /\ pc = "loop"
    /\ currentState # "STATE_NONE"
    /\ word # <<>>
    /\ tokens # <<>>
    /\ position.index < Len(source)

----------------------------------------------------------------------------
(* C28 *)

\* src has a whitespace character.
HasWhitespace(src) == \E k \in 1..Len(src) : src[k] \in WhitespaceChars

\* C28: a Whitespace token is emitted only for a whitespace character that
\* is present in the source; the newline synthesized at the end of the input
\* never appears in the output, so an input with no whitespace character
\* yields no Whitespace token and no token has position.index at or beyond
\* the length of the source.
C28_NoSyntheticWhitespace ==
    pc = "done"
        => /\ \A i \in 1..Len(tokens) :
                  tokens[i].type = "WHITESPACE" => HasChar(source, tokens[i].lexeme[1])
           /\ ~HasWhitespace(source)
                  => \A i \in 1..Len(tokens) : tokens[i].type # "WHITESPACE"
           /\ \A i \in 1..Len(tokens) : tokens[i].position.index < Len(source)

----------------------------------------------------------------------------
(* C29 *)

\* The number of backslashes at the end of w.
RECURSIVE TrailingBackslashes(_)
TrailingBackslashes(w) ==
    IF w = <<>> \/ Last(w) # "\\" THEN 0
    ELSE 1 + TrailingBackslashes(SubSeq(w, 1, Len(w) - 1))

\* The delimiter c after the buffer is escaped: an odd number of backslashes
\* stands before it.
IsEscaped == TrailingBackslashes(word) % 2 = 1

\* The literal is closed by c and emitted as one token of the type.
ClosesLiteral(type) ==
    /\ AppendsOne
    /\ Last(tokens').type = type
    /\ Last(tokens').lexeme = Append(word, c)
    /\ currentState' = "STATE_NONE"

C29_Step ==
    /\ (pc = "consumer" /\ currentState = "STATE_LITERAL_STRING" /\ c = "\"")
       => IF IsEscaped THEN Continues ELSE ClosesLiteral("STRING")
    /\ (pc = "consumer" /\ currentState = "STATE_LITERAL_CHAR" /\ c = "'")
       => IF IsEscaped THEN Continues ELSE ClosesLiteral("CHAR")

\* C29: a string or char literal whose content ends with an escaped
\* backslash, so that the closing delimiter is preceded by an even number of
\* backslashes, is closed at that delimiter and emitted as one String or
\* Char token; only a delimiter preceded by an odd number of backslashes is
\* treated as escaped.
C29_EscapedBackslash == [][C29_Step]_vars

----------------------------------------------------------------------------
(* C30 *)

\* lex starts and ends with the delimiter, which are two characters of it,
\* and has no newline.
IsDelimited(lex, delimiter) ==
    /\ Len(lex) >= 2
    /\ lex[1] = delimiter
    /\ Last(lex) = delimiter
    /\ ~HasChar(lex, "\n")

C30_Step ==
    /\ \A i \in 1..Len(tokens') :
           /\ tokens'[i].type = "STRING" => IsDelimited(tokens'[i].lexeme, "\"")
           /\ tokens'[i].type = "CHAR" => IsDelimited(tokens'[i].lexeme, "'")
    /\ (pc = "consumer" /\ currentState = "STATE_NONE" /\ c \in {"\"", "'"})
       => /\ tokens' = tokens
          /\ word' = <<c>>
          /\ currentState' = (IF c = "\"" THEN "STATE_LITERAL_STRING"
                              ELSE "STATE_LITERAL_CHAR")
          /\ position'.index = position.index + 1

\* C30: every String token's lexeme starts and ends with '"', has length at
\* least 2 and contains no newline, and every Char token's lexeme starts and
\* ends with a single quote, has length at least 2 and contains no newline;
\* the opening delimiter is consumed when the literal opens and is never
\* taken as the closing one.
C30_LiteralLexemes == [][C30_Step]_vars

\* An empty string and an empty char literal, each closed by its second
\* delimiter.
C30_Witness ==
    /\ pc = "done"
    /\ \E i \in 1..Len(tokens) : tokens[i].type = "STRING" /\ Len(tokens[i].lexeme) = 2
    /\ \E i \in 1..Len(tokens) : tokens[i].type = "CHAR" /\ Len(tokens[i].lexeme) = 2

----------------------------------------------------------------------------
(* C31 *)

\* The character at CONSUMER is a character of the source and opens a comment.
AtCommentOpener ==
    /\ pc = "consumer"
    /\ position.index < Len(source)
    /\ c = "/"
    /\ next_c \in {"/", "*"}

\* lex has a comment opener in it.
HasCommentOpener(lex) ==
    \E k \in 1..(Len(lex) - 1) : lex[k] = "/" /\ lex[k + 1] \in {"/", "*"}

C31_Step ==
    /\ (AtCommentOpener /\ currentState = "STATE_NONE")
       => /\ tokens' = tokens
          /\ word' = <<"/">>
          /\ currentState' = (IF next_c = "/" THEN "STATE_LINE_COMMENT"
                              ELSE "STATE_BLOCK_COMMENT")
    /\ (AtCommentOpener
           /\ currentState \in {"STATE_WORD", "STATE_OPERATORS", "STATE_NUMBERS",
                                "STATE_HEX", "STATE_BINARY"})
       => HandsOver
    /\ \A i \in 1..Len(tokens') :
           (tokens'[i].type \in {"OPERATOR", "UNKNOWN"}
                /\ tokens'[i].lexeme[1] \in java_operators_starter)
               => ~HasCommentOpener(tokens'[i].lexeme)

\* C31: a comment opener (// or /*) outside a string, char or comment starts
\* a LineComment or BlockComment token wherever it occurs, also directly
\* after operator characters with no separator; the comment text is never
\* absorbed into an operator or Unknown token.
C31_CommentAfterOperator == [][C31_Step]_vars

----------------------------------------------------------------------------
(* C32 *)

\* In lex every exponent marker is followed by at most one sign and then at
\* least one digit, and no decimal point comes after a marker.
IsWellFormedExponent(lex) ==
    \A k \in 1..Len(lex) :
        lex[k] \in ExponentMarkers
            => LET d == IF k < Len(lex) /\ lex[k + 1] \in Signs THEN k + 2 ELSE k + 1
               IN  /\ d <= Len(lex)
                   /\ lex[d] \in DecimalDigits
                   /\ \A m \in (k + 1)..Len(lex) : lex[m] # "."

\* C32: in every Number token the exponent part is well formed: an e/E in
\* the lexeme is followed by an optional single sign and then at least one
\* digit, and no decimal point occurs after the exponent marker.
C32_ExponentWellFormed ==
    \A i \in 1..Len(tokens) :
        tokens[i].type = "NUMBER" => IsWellFormedExponent(tokens[i].lexeme)

====
